---- MODULE Spec2Model ----
(***************************************************************************)
(* Client-side session and order-view logic of the smart-calling-agent     *)
(* front end: the order list page (two versions), the order detail page,   *)
(* the landing page and the login page (two versions), over the browser's  *)
(* localStorage, the router and the toaster.  Every async handler is an    *)
(* in-flight task that the event loop resumes when its response arrives.   *)
(***************************************************************************)
EXTENDS Integers, Sequences, FiniteSets, Bags, TLC

(* ------------------------------ bounds -------------------------------- *)

\* how many async handlers may be awaiting a response at once
MaxTasks == 2
\* how long an orders array of an API response may be
MaxOrders == 1

(* ------------------------- JavaScript values --------------------------- *)

\* a string the code inspects character by character is a sequence of characters
undefined == [type |-> "undefined"]
null == [type |-> "null"]
\* JSON.parse threw: the body was no JSON
invalid == [type |-> "invalid"]
\* localStorage.getItem of a missing key
NoItem == "<null>"

Arr(s) == [array |-> s]

LowerOf ==
  [c \in {"A","B","C","D","E","F","G","H","I","J","K","L","M","N","O","P","Q",
          "R","S","T","U","V","W","X","Y","Z"} |->
     CASE c = "A" -> "a" [] c = "B" -> "b" [] c = "C" -> "c" [] c = "D" -> "d"
       [] c = "E" -> "e" [] c = "F" -> "f" [] c = "G" -> "g" [] c = "H" -> "h"
       [] c = "I" -> "i" [] c = "J" -> "j" [] c = "K" -> "k" [] c = "L" -> "l"
       [] c = "M" -> "m" [] c = "N" -> "n" [] c = "O" -> "o" [] c = "P" -> "p"
       [] c = "Q" -> "q" [] c = "R" -> "r" [] c = "S" -> "s" [] c = "T" -> "t"
       [] c = "U" -> "u" [] c = "V" -> "v" [] c = "W" -> "w" [] c = "X" -> "x"
       [] c = "Y" -> "y" [] c = "Z" -> "z"]

toLowerCase(s) ==
  [i \in 1..Len(s) |-> IF s[i] \in DOMAIN LowerOf THEN LowerOf[s[i]] ELSE s[i]]

\* !value of a string read from localStorage
Falsy(v) == v = NoItem \/ v = ""

(* --------------------------- status strings ---------------------------- *)

delivered == <<"d","e","l","i","v","e","r","e","d">>
shipped == <<"s","h","i","p","p","e","d">>
confirmed == <<"c","o","n","f","i","r","m","e","d">>
cancelled == <<"c","a","n","c","e","l","l","e","d">>
pending == <<"p","e","n","d","i","n","g">>

(* --------------------------- pure functions ---------------------------- *)

\* the order list, first version: the status is matched as it is
getStatusColorV1(status) ==
  CASE status = delivered -> "bg-green-500"
    [] status = shipped -> "bg-blue-500"
    [] status = confirmed -> "bg-purple-500"
    [] status = cancelled -> "bg-red-500"
    [] OTHER -> "bg-yellow-500"

\* faulty variant: the status is not lowercased
getStatusColorV2_AsIs(status) ==
  CASE status = delivered -> "bg-green-500"
    [] status = shipped -> "bg-blue-500"
    [] status = confirmed -> "bg-purple-500"
    [] status = cancelled -> "bg-red-500"
    [] OTHER -> "bg-yellow-500"

\* the order list, second version: the status is lowercased first
getStatusColorV2(status) ==
  LET s == toLowerCase(status) IN
  CASE s = delivered -> "bg-green-500"
    [] s = shipped -> "bg-blue-500"
    [] s = confirmed -> "bg-purple-500"
    [] s = cancelled -> "bg-red-500"
    [] OTHER -> "bg-yellow-500"

\* the order detail page
getStatusColorDetail(status) ==
  LET s == toLowerCase(status) IN
  CASE s = delivered -> "bg-green-500"
    [] s = shipped -> "bg-blue-500"
    [] s = confirmed -> "bg-purple-500"
    [] s = cancelled -> "bg-red-500"
    [] OTHER -> "bg-yellow-500"

\* faulty variant: the status is compared as it is
canCancel_AsIs(order) ==
  /\ order # null
  /\ order # undefined
  /\ order.order_status = confirmed

\* order?.order_status.toLowerCase() === "confirmed"
canCancel(order) ==
  /\ order # null
  /\ order # undefined
  /\ toLowerCase(order.order_status) = confirmed

(* ------------------------------- data ---------------------------------- *)

OrderIds == {"o1", "o2"}
\* order_status is a free-form string: a capitalised confirmed, and one other
Confirmed == <<"C","o","n","f","i","r","m","e","d">>
Order(id, status) == [id |-> id, order_status |-> status, quantity |-> 2]
\* the orders the API may send: o1 is Confirmed, o2 is pending
ApiOrders == {Order("o1", Confirmed), Order("o2", pending)}
\* the orders arrays the API may send: up to MaxOrders orders, all of them o2
OrderSeqs == UNION {[1..n -> {Order("o2", pending)}] : n \in 0..MaxOrders}
Tokens == {"tok"}
Phones == {"9876543210"}

\* what the user may have typed into a phone number field: nothing, too few
\* characters, ten digits
PhoneInputs == {"", "98765", "9876543210"}
\* what the user may have typed into the OTP field (digits only, maxLength 6)
OtpInputs == {"", "12345", "123456"}
\* a string of a JSON body
Str(s) == [str |-> s]
\* String(value), as localStorage.setItem applies it to its argument
String(value) == IF value = undefined THEN "undefined" ELSE value.str
setItem(st, key, value) == [st EXCEPT ![key] = String(value)]

\* fetch rejected: no response at all
NetworkError == [type |-> "TypeError"]
HttpStatuses == {200, 401, 404}
ok(response) == response.status \in 200..299

\* GET /api/orders
OrdersBodies == {invalid, [orders |-> undefined]} \cup {[orders |-> Arr(s)] : s \in OrderSeqs}
OrdersResponses ==
  {NetworkError} \cup {[status |-> 200, body |-> b] : b \in OrdersBodies}
    \cup {[status |-> s, body |-> invalid] : s \in HttpStatuses \ {200}}
\* GET /api/orders/:id
OrderBodies == {invalid, [order |-> undefined]} \cup {[order |-> o] : o \in ApiOrders}
OrderResponses ==
  {NetworkError} \cup {[status |-> 200, body |-> b] : b \in OrderBodies}
    \cup {[status |-> s, body |-> invalid] : s \in HttpStatuses \ {200}}
\* PATCH /api/orders/:id: the body is never read
CancelResponses == {NetworkError} \cup {[status |-> s, body |-> invalid] : s \in HttpStatuses}

\* POST /make_call: the body is never read
CallResponses == {NetworkError} \cup {[status |-> s, body |-> invalid] : s \in {200, 404}}
\* POST /api/login: read only when 2xx
LoginBodies == {invalid, [success |-> TRUE, token |-> Str("tok")],
                [success |-> FALSE, token |-> undefined]}
LoginResponses ==
  {NetworkError} \cup {[status |-> 200, body |-> b] : b \in LoginBodies}
    \cup {[status |-> s, body |-> invalid] : s \in HttpStatuses \ {200}}
\* POST /api/auth/send-otp: the body is read whatever the status
SendOtpBodies == {invalid, [success |-> TRUE], [success |-> FALSE]}
SendOtpResponses ==
  {NetworkError} \cup {[status |-> s, body |-> b] : s \in {200, 404}, b \in SendOtpBodies}
\* POST /api/auth/verify-otp: the body is read whatever the status
VerifyOtpBodies ==
  {invalid,
   [success |-> TRUE, token |-> Str("tok"), phoneNumber |-> Str("9876543210")],
   [success |-> FALSE, token |-> undefined, phoneNumber |-> undefined]}
VerifyOtpResponses ==
  {NetworkError} \cup {[status |-> s, body |-> b] : s \in {200, 404}, b \in VerifyOtpBodies}

(* ------------------------------- state --------------------------------- *)

VARIABLES
  build,         \* which version of the order list, and which login page, is deployed
  localStorage,  \* [authToken, phoneNumber], NoItem for a missing key
  page,          \* the mounted page component and its useState values
  tasks,         \* the async handlers awaiting a response, a bag: any may resume next
  toast,         \* the toast() call of the handler that ran last (NoToast: none)
  ev             \* the handler that ran last ("useEffect": a click or a history
                 \* step mounted a protected page; "user": any other click)

vars == <<build, localStorage, page, tasks, toast, ev>>

NoToast == [title |-> "", description |-> ""]
Toast(t, d) == [title |-> t, description |-> d]

\* the program state a handler reads and writes
Ctx(st, pg, tk, to) == [storage |-> st, page |-> pg, tasks |-> tk, toast |-> to]
\* what a handler starts from: it has raised no notice yet
Now == Ctx(localStorage, page, tasks, NoToast)

(* ------------------------------ routing -------------------------------- *)

\* the state of a component when it mounts
NewPage(name, id) ==
  CASE name = "Index" -> [name |-> "Index", phoneNumber |-> "", loading |-> FALSE]
    [] name = "Login" ->
         IF build.login = "otp"
           THEN [name |-> "Login", phoneNumber |-> "", otp |-> "", loading |-> FALSE,
                 otpSent |-> FALSE]
           ELSE [name |-> "Login", phoneNumber |-> "", loading |-> FALSE]
    [] name = "Orders" ->
         IF build.orders = "v2"
           THEN [name |-> "Orders", orders |-> Arr(<<>>), loading |-> TRUE, phoneNumber |-> ""]
           ELSE [name |-> "Orders", orders |-> Arr(<<>>), loading |-> TRUE]
    [] name = "OrderDetail" ->
         [name |-> "OrderDetail", orderId |-> id, order |-> null, orderNumber |-> 0,
          loading |-> TRUE, showCancelDialog |-> FALSE]

\* orders.length of the list page's render throws when orders is undefined: with
\* no error boundary React then removes the whole tree, router included
Crashed(pg) == pg.name = "Orders" /\ pg.orders = undefined

\* a task of an unmounted component: what it captured for its setState calls
\* (order, orderId) can reach nothing any more and is forgotten
Stale(t) ==
  CASE t.fn = "fetchOrderDetail" -> [t EXCEPT !.live = FALSE, !.orderId = ""]
    [] t.fn = "handleCancelOrder" -> [t EXCEPT !.live = FALSE, !.orderId = "", !.order = null]
    [] OTHER -> [t EXCEPT !.live = FALSE]

RECURSIVE CountOf(_, _)
CountOf(tk, S) ==
  IF S = {} THEN 0
  ELSE LET t == CHOOSE x \in S : TRUE IN tk[t] + CountOf(tk, S \ {t})

\* faulty variant: unmounting aborts the component's requests
Unmount_Abort(tk) ==
  [u \in {Stale(t) : t \in {x \in BagToSet(tk) : ~x.live}} |->
     CountOf(tk, {t \in BagToSet(tk) : Stale(t) = u})]

\* the handlers of an unmounted component stay in flight
Unmount(tk) ==
  [u \in {Stale(t) : t \in BagToSet(tk)} |->
     CountOf(tk, {t \in BagToSet(tk) : Stale(t) = u})]

Start(tk, t) == tk (+) SetToBag({t})
Finish(tk, t) == tk (-) SetToBag({t})

\* useEffect of the order list: both versions want the token and the phone number
OrdersEffect(c) ==
  LET authToken == c.storage.authToken
      storedPhone == c.storage.phoneNumber
  IN IF Falsy(authToken) \/ Falsy(storedPhone)
       THEN [c EXCEPT !.page = NewPage("Login", ""), !.tasks = Unmount(c.tasks)]
       ELSE [c EXCEPT
               !.page = IF build.orders = "v2"
                          THEN [c.page EXCEPT !.phoneNumber = storedPhone]
                          ELSE c.page,
               !.tasks = Start(c.tasks,
                           [fn |-> "fetchOrders", live |-> TRUE, authToken |-> authToken])]

\* faulty variant: the effect fetches whatever localStorage holds
OrderDetailEffect_NoGuard(c) ==
  [c EXCEPT
     !.tasks = Start(c.tasks,
                 [fn |-> "fetchOrderDetail", live |-> TRUE,
                  authToken |-> c.storage.authToken,
                  orderId |-> c.page.orderId, awaiting |-> "allOrders",
                  allOrdersResponse |-> null])]

\* useEffect of the order detail page: it wants the token only
OrderDetailEffect(c) ==
  LET authToken == c.storage.authToken
  IN IF Falsy(authToken)
       THEN [c EXCEPT !.page = NewPage("Login", ""), !.tasks = Unmount(c.tasks)]
       ELSE [c EXCEPT
               !.tasks = Start(c.tasks,
                           [fn |-> "fetchOrderDetail", live |-> TRUE, authToken |-> authToken,
                            orderId |-> c.page.orderId, awaiting |-> "allOrders",
                            allOrdersResponse |-> null])]

\* navigate(path): the route's component mounts and its effect runs; the same
\* location mounts nothing, and another :orderId keeps the component and reruns
\* the effect that depends on it
navigate(c, name, id) ==
  IF Crashed(c.page) THEN c
  ELSE IF c.page.name = name /\ (name # "OrderDetail" \/ c.page.orderId = id) THEN c
  ELSE IF c.page.name = "OrderDetail" /\ name = "OrderDetail"
    THEN OrderDetailEffect([c EXCEPT !.page.orderId = id])
  ELSE LET m == [c EXCEPT !.page = NewPage(name, id), !.tasks = Unmount(c.tasks)]
       IN CASE name = "Orders" -> OrdersEffect(m)
            [] name = "OrderDetail" -> OrderDetailEffect(m)
            [] OTHER -> m

\* navigate(name) from c mounts a protected page, or changes :orderId: the
\* page's useEffect runs
EffectRuns(c, name, id) ==
  /\ ~Crashed(c.page)
  /\ name \in {"Orders", "OrderDetail"}
  /\ ~(c.page.name = name /\ (name # "OrderDetail" \/ c.page.orderId = id))

\* setState of the component that started the task: nothing once it is unmounted
SetState(c, task, newPage) == IF task.live THEN [c EXCEPT !.page = newPage] ELSE c

\* the handler's writes become the next state
Commit(c) ==
  /\ BagCardinality(c.tasks) <= MaxTasks
  /\ localStorage' = c.storage
  /\ page' = c.page
  /\ tasks' = c.tasks
  /\ toast' = c.toast

(* --------------------------- the order list ---------------------------- *)

ErrorLoadOrders == Toast("Error", "Failed to load orders")
SessionExpired == Toast("Session expired", "Please login again")
\* faulty variant: only the token is removed
ClearSession_TokenOnly(st) == [st EXCEPT !.authToken = NoItem]

\* localStorage.removeItem("authToken"); localStorage.removeItem("phoneNumber")
ClearSession(st) == [st EXCEPT !.authToken = NoItem, !.phoneNumber = NoItem]

\* fetchOrders of the first version, resumed with the response: every non-2xx
\* status, 401 included, is thrown into the catch
fetchOrdersV1(c, task, response) ==
  IF response # NetworkError /\ ok(response) /\ response.body # invalid
    THEN SetState(c, task, [c.page EXCEPT !.orders = response.body.orders, !.loading = FALSE])
    ELSE [SetState(c, task, [c.page EXCEPT !.loading = FALSE]) EXCEPT !.toast = ErrorLoadOrders]

\* faulty variant: setLoading(false) only after a 2xx answer, not in a finally
fetchOrdersV2_NoFinally(c, task, response) ==
  IF response # NetworkError /\ ok(response)
    THEN IF response.body = invalid
           THEN [c EXCEPT !.toast = ErrorLoadOrders]
           ELSE SetState(c, task,
                  [c.page EXCEPT
                     !.orders = IF response.body.orders = undefined
                                  THEN Arr(<<>>) ELSE response.body.orders,
                     !.loading = FALSE])
  ELSE IF response # NetworkError /\ response.status = 401
    THEN navigate([c EXCEPT !.toast = SessionExpired,
                            !.storage = ClearSession(c.storage)], "Login", "")
  ELSE [c EXCEPT !.toast = ErrorLoadOrders]

\* fetchOrders of the second version: data.orders || [], and a branch for 401.
\* finally's setLoading(false) is written first: the navigate of the 401 branch
\* unmounts the component, or the task was not live
fetchOrdersV2(c, task, response) ==
  LET done == SetState(c, task, [c.page EXCEPT !.loading = FALSE]) IN
  IF response # NetworkError /\ ok(response)
    THEN IF response.body = invalid
           THEN [done EXCEPT !.toast = ErrorLoadOrders]
           ELSE SetState(c, task,
                  [c.page EXCEPT
                     !.orders = IF response.body.orders = undefined
                                  THEN Arr(<<>>) ELSE response.body.orders,
                     !.loading = FALSE])
  ELSE IF response # NetworkError /\ response.status = 401
    THEN navigate([done EXCEPT !.toast = SessionExpired,
                               !.storage = ClearSession(done.storage)], "Login", "")
  ELSE [done EXCEPT !.toast = ErrorLoadOrders]

fetchOrders(c, task, response) ==
  IF build.orders = "v2" THEN fetchOrdersV2(c, task, response)
                         ELSE fetchOrdersV1(c, task, response)

\* the response of GET /api/orders reaches the list page's handler
FetchOrdersResponse ==
  \E task \in BagToSet(tasks), response \in OrdersResponses :
    /\ task.fn = "fetchOrders"
    /\ Commit(fetchOrders([Now EXCEPT !.tasks = Finish(tasks, task)], task, response))
    /\ ev' = "fetchOrders"
    /\ UNCHANGED build

\* faulty variant: the phone number stays in localStorage
handleLogout_TokenOnly(c) ==
  navigate([c EXCEPT !.storage.authToken = NoItem], "Index", "")

handleLogout(c) == navigate([c EXCEPT !.storage = ClearSession(c.storage)], "Index", "")

\* the Logout button of the list page
Logout ==
  /\ page.name = "Orders" /\ ~Crashed(page)
  /\ Commit(handleLogout(Now))
  /\ ev' = "handleLogout"
  /\ UNCHANGED build

\* Place Order (second version) and Go to Home (the empty state): navigate("/")
OrdersGoHome ==
  /\ page.name = "Orders" /\ ~Crashed(page)
  /\ build.orders = "v2" \/ (~page.loading /\ Len(page.orders.array) = 0)
  /\ Commit(navigate(Now, "Index", ""))
  /\ ev' = "user"
  /\ UNCHANGED build

\* a click on an order card
OpenOrder ==
  /\ page.name = "Orders" /\ ~Crashed(page) /\ ~page.loading
  /\ \E i \in DOMAIN page.orders.array :
       Commit(navigate(Now, "OrderDetail", page.orders.array[i].id))
  /\ ev' = "useEffect"
  /\ UNCHANGED build

\* the browser's back and forward buttons: any route of the history, without a reload
HistoryGo ==
  /\ ~Crashed(page)
  /\ \E name \in {"Index", "Login", "Orders", "OrderDetail"}, id \in OrderIds :
       /\ name # "OrderDetail" => id = "o1"
       /\ Commit(navigate(Now, name, IF name = "OrderDetail" THEN id ELSE ""))
       /\ ev' = IF EffectRuns(Now, name, id) THEN "useEffect" ELSE "user"
  /\ UNCHANGED build

(* --------------------------- the order detail -------------------------- *)

ErrorLoadDetails == Toast("Error", "Failed to load order details")
OrderCancelledToast == Toast("Order cancelled", "Your order has been cancelled successfully")
ErrorCancel == Toast("Error", "Failed to cancel order")

\* allOrders.findIndex(o => o.id === orderId), from 0, -1 when there is none
findIndex(allOrders, orderId) ==
  LET hits == {i \in DOMAIN allOrders : allOrders[i].id = orderId}
  IN IF hits = {} THEN -1
     ELSE (CHOOSE i \in hits : \A j \in hits : i <= j) - 1

\* the catch of fetchOrderDetail, with finally's setLoading(false) written first
fetchOrderDetailCatch(c, task) ==
  navigate([SetState(c, task, [c.page EXCEPT !.loading = FALSE])
              EXCEPT !.toast = ErrorLoadDetails], "Orders", "")

\* fetchOrderDetail resumed with the response of GET /api/orders: it goes on to
\* GET /api/orders/:id, unless fetch threw
fetchOrderDetailAllOrders(c, task, response) ==
  IF response = NetworkError
    THEN fetchOrderDetailCatch(c, task)
    ELSE [c EXCEPT !.tasks = Start(c.tasks,
            [task EXCEPT !.awaiting = "order", !.allOrdersResponse = response])]

\* fetchOrderDetail resumed with the response of GET /api/orders/:id
fetchOrderDetailOrder(c, task, response) ==
  LET allOrdersResponse == task.allOrdersResponse IN
  IF response = NetworkError THEN fetchOrderDetailCatch(c, task)
  ELSE IF ok(response) /\ ok(allOrdersResponse)
    THEN IF response.body = invalid \/ allOrdersResponse.body = invalid
           THEN fetchOrderDetailCatch(c, task)
           ELSE LET allOrders == IF allOrdersResponse.body.orders = undefined
                                   THEN <<>> ELSE allOrdersResponse.body.orders.array
                    orderIndex == findIndex(allOrders, task.orderId)
                IN SetState(c, task,
                     [c.page EXCEPT !.order = response.body.order,
                                    !.orderNumber = Len(allOrders) - orderIndex,
                                    !.loading = FALSE])
  ELSE IF response.status = 401
    THEN navigate([SetState(c, task, [c.page EXCEPT !.loading = FALSE])
                     EXCEPT !.toast = SessionExpired,
                            !.storage = ClearSession(c.storage)], "Login", "")
  ELSE fetchOrderDetailCatch(c, task)

FetchOrderDetailAllOrdersResponse ==
  \E task \in BagToSet(tasks), response \in OrdersResponses :
    /\ task.fn = "fetchOrderDetail" /\ task.awaiting = "allOrders"
    /\ Commit(fetchOrderDetailAllOrders([Now EXCEPT !.tasks = Finish(tasks, task)],
                                        task, response))
    /\ ev' = "fetchOrderDetail.allOrders"
    /\ UNCHANGED build

FetchOrderDetailOrderResponse ==
  \E task \in BagToSet(tasks), response \in OrderResponses :
    /\ task.fn = "fetchOrderDetail" /\ task.awaiting = "order"
    /\ Commit(fetchOrderDetailOrder([Now EXCEPT !.tasks = Finish(tasks, task)],
                                    task, response))
    /\ ev' = "fetchOrderDetail.order"
    /\ UNCHANGED build

\* the detail page renders the order: not loading, and order is truthy
OrderRendered(pg) ==
  pg.name = "OrderDetail" /\ ~pg.loading /\ pg.order # null /\ pg.order # undefined

\* the Cancel Order button is in the rendered page
CancelOffered(pg) == OrderRendered(pg) /\ canCancel(pg.order)

\* Back to Orders
BackToOrders ==
  /\ OrderRendered(page)
  /\ Commit(navigate(Now, "Orders", ""))
  /\ ev' = "useEffect"
  /\ UNCHANGED build

\* the Cancel Order button opens the dialog
OpenCancelDialog ==
  /\ CancelOffered(page)
  /\ page' = [page EXCEPT !.showCancelDialog = TRUE]
  /\ ev' = "user"
  /\ toast' = NoToast
  /\ UNCHANGED <<build, localStorage, tasks>>

\* Keep Order, or the dialog dismissed
KeepOrder ==
  /\ OrderRendered(page) /\ page.showCancelDialog
  /\ page' = [page EXCEPT !.showCancelDialog = FALSE]
  /\ ev' = "user"
  /\ toast' = NoToast
  /\ UNCHANGED <<build, localStorage, tasks>>

\* handleCancelOrder up to its await: the token is read now, order and orderId
\* are those of the render the click was made in (the dialog's action button
\* closes the dialog)
handleCancelOrderStart(c) ==
  [c EXCEPT !.page.showCancelDialog = FALSE,
            !.tasks = Start(c.tasks,
               [fn |-> "handleCancelOrder", live |-> TRUE,
                authToken |-> c.storage.authToken,
                orderId |-> c.page.orderId, order |-> c.page.order])]

\* faulty variant: the status is set to cancelled before the response is looked at
handleCancelOrderResponse_Optimistic(c, task, response) ==
  LET set == SetState(c, task,
               [c.page EXCEPT !.showCancelDialog = FALSE,
                              !.order = [task.order EXCEPT !.order_status = cancelled]])
  IN IF response # NetworkError /\ ok(response)
       THEN [set EXCEPT !.toast = OrderCancelledToast]
       ELSE [set EXCEPT !.toast = ErrorCancel]

\* handleCancelOrder resumed with the response of the PATCH
handleCancelOrderResponse(c, task, response) ==
  IF response # NetworkError /\ ok(response)
    THEN [SetState(c, task,
            [c.page EXCEPT !.showCancelDialog = FALSE,
                           !.order = [task.order EXCEPT !.order_status = cancelled]])
            EXCEPT !.toast = OrderCancelledToast]
    ELSE [c EXCEPT !.toast = ErrorCancel]

\* Cancel Order of the dialog
CancelOrderClick ==
  /\ OrderRendered(page) /\ page.showCancelDialog
  /\ Commit(handleCancelOrderStart(Now))
  /\ ev' = "handleCancelOrder"
  /\ UNCHANGED build

CancelOrderResponse ==
  \E task \in BagToSet(tasks), response \in CancelResponses :
    /\ task.fn = "handleCancelOrder"
    /\ Commit(handleCancelOrderResponse([Now EXCEPT !.tasks = Finish(tasks, task)],
                                        task, response))
    /\ ev' = "handleCancelOrder.response"
    /\ UNCHANGED build

(* ------------------- the landing page and the login -------------------- *)

InvalidPhone == Toast("Invalid phone number", "Please enter a valid phone number")
InvalidOtp == Toast("Invalid OTP", "Please enter a valid 6-digit OTP")
CallRequested == Toast("Success!", "You'll receive a call shortly")
ErrorCall == Toast("Error", "Failed to request call. Please try again.")
LoginSuccessful == Toast("Login successful", "Redirecting to your orders...")
ErrorLogin == Toast("Error", "Failed to login. Please try again.")
OtpSentToast(phoneNumber) == Toast("OTP Sent", "OTP has been sent to " \o phoneNumber)
\* error instanceof Error ? error.message : ...: what fetch and response.json()
\* throw are Errors too
ErrorMessage(message) == Toast("Error", message)
FailedToFetch == "Failed to fetch"
JsonSyntaxError == "Unexpected end of JSON input"

\* !phoneNumber || phoneNumber.length < 10
BadPhone(phoneNumber) == phoneNumber = "" \/ Len(phoneNumber) < 10
\* !otp || otp.length !== 6
BadOtp(otp) == otp = "" \/ Len(otp) # 6

\* the phone number field is in the rendered page
PhoneField(pg) ==
  \/ pg.name = "Index"
  \/ pg.name = "Login" /\ (build.login = "otp" => ~pg.otpSent)

\* onChange of the phone number field: the field is never disabled
TypePhone ==
  /\ PhoneField(page)
  /\ \E phoneNumber \in PhoneInputs :
       /\ phoneNumber # page.phoneNumber
       /\ page' = [page EXCEPT !.phoneNumber = phoneNumber]
  /\ ev' = "user"
  /\ toast' = NoToast
  /\ UNCHANGED <<build, localStorage, tasks>>

\* the Login button of the landing page
IndexGoLogin ==
  /\ page.name = "Index"
  /\ Commit(navigate(Now, "Login", ""))
  /\ ev' = "user"
  /\ UNCHANGED build

\* Back to Home of the login page
LoginGoHome ==
  /\ page.name = "Login"
  /\ Commit(navigate(Now, "Index", ""))
  /\ ev' = "user"
  /\ UNCHANGED build

\* handleRequestCall up to its await
handleRequestCallStart(c) ==
  IF BadPhone(c.page.phoneNumber) THEN [c EXCEPT !.toast = InvalidPhone]
  ELSE [c EXCEPT !.page.loading = TRUE,
                 !.tasks = Start(c.tasks, [fn |-> "handleRequestCall", live |-> TRUE])]

\* handleRequestCall resumed with the response of POST /make_call
handleRequestCallResponse(c, task, response) ==
  IF response # NetworkError /\ ok(response)
    THEN [SetState(c, task, [c.page EXCEPT !.phoneNumber = "", !.loading = FALSE])
            EXCEPT !.toast = CallRequested]
    ELSE [SetState(c, task, [c.page EXCEPT !.loading = FALSE]) EXCEPT !.toast = ErrorCall]

\* Request Call Now, disabled while loading
RequestCallClick ==
  /\ page.name = "Index" /\ ~page.loading
  /\ Commit(handleRequestCallStart(Now))
  /\ ev' = "handleRequestCall"
  /\ UNCHANGED build

RequestCallResponse ==
  \E task \in BagToSet(tasks), response \in CallResponses :
    /\ task.fn = "handleRequestCall"
    /\ Commit(handleRequestCallResponse([Now EXCEPT !.tasks = Finish(tasks, task)],
                                        task, response))
    /\ ev' = "handleRequestCall.response"
    /\ UNCHANGED build

\* handleLogin up to its await
handleLoginStart(c) ==
  IF BadPhone(c.page.phoneNumber) THEN [c EXCEPT !.toast = InvalidPhone]
  ELSE [c EXCEPT !.page.loading = TRUE,
                 !.tasks = Start(c.tasks, [fn |-> "handleLogin", live |-> TRUE,
                                           phoneNumber |-> c.page.phoneNumber])]

\* handleLogin resumed with the response of POST /api/login, with finally's
\* setLoading(false) written first
handleLoginResponse(c, task, response) ==
  LET done == SetState(c, task, [c.page EXCEPT !.loading = FALSE]) IN
  IF response # NetworkError /\ ok(response) /\ response.body # invalid
    THEN navigate(
           [done EXCEPT
              !.storage = setItem(setItem(done.storage, "authToken", response.body.token),
                                  "phoneNumber", Str(task.phoneNumber)),
              !.toast = LoginSuccessful], "Orders", "")
    ELSE [done EXCEPT !.toast = ErrorLogin]

\* the Login button of the direct login page, disabled while loading
LoginClick ==
  /\ page.name = "Login" /\ build.login = "direct" /\ ~page.loading
  /\ Commit(handleLoginStart(Now))
  /\ ev' = "handleLogin"
  /\ UNCHANGED build

LoginResponse ==
  \E task \in BagToSet(tasks), response \in LoginResponses :
    /\ task.fn = "handleLogin"
    /\ Commit(handleLoginResponse([Now EXCEPT !.tasks = Finish(tasks, task)], task, response))
    /\ ev' = "handleLogin.response"
    /\ UNCHANGED build

(* ---------------------------- the OTP login ---------------------------- *)

\* onChange of the OTP field
TypeOtp ==
  /\ page.name = "Login" /\ build.login = "otp" /\ page.otpSent
  /\ \E otp \in OtpInputs :
       /\ otp # page.otp
       /\ page' = [page EXCEPT !.otp = otp]
  /\ ev' = "user"
  /\ toast' = NoToast
  /\ UNCHANGED <<build, localStorage, tasks>>

\* faulty variant: only an empty phone number is rejected
handleSendOtpStart_EmptyOnly(c) ==
  IF c.page.phoneNumber = "" THEN [c EXCEPT !.toast = InvalidPhone]
  ELSE [c EXCEPT !.page.loading = TRUE,
                 !.tasks = Start(c.tasks, [fn |-> "handleSendOtp", live |-> TRUE,
                                           phoneNumber |-> c.page.phoneNumber])]

\* handleSendOtp up to its await
handleSendOtpStart(c) ==
  IF BadPhone(c.page.phoneNumber) THEN [c EXCEPT !.toast = InvalidPhone]
  ELSE [c EXCEPT !.page.loading = TRUE,
                 !.tasks = Start(c.tasks, [fn |-> "handleSendOtp", live |-> TRUE,
                                           phoneNumber |-> c.page.phoneNumber])]

\* handleSendOtp resumed with the response of POST /api/auth/send-otp
handleSendOtpResponse(c, task, response) ==
  LET done == SetState(c, task, [c.page EXCEPT !.loading = FALSE]) IN
  IF response = NetworkError THEN [done EXCEPT !.toast = ErrorMessage(FailedToFetch)]
  ELSE IF response.body = invalid THEN [done EXCEPT !.toast = ErrorMessage(JsonSyntaxError)]
  ELSE IF ok(response) /\ response.body.success
    THEN [SetState(c, task, [c.page EXCEPT !.otpSent = TRUE, !.loading = FALSE])
            EXCEPT !.toast = OtpSentToast(task.phoneNumber)]
  ELSE [done EXCEPT !.toast = ErrorMessage("Failed to send OTP")]

\* Send OTP, disabled while loading
SendOtpClick ==
  /\ page.name = "Login" /\ build.login = "otp" /\ ~page.otpSent /\ ~page.loading
  /\ Commit(handleSendOtpStart(Now))
  /\ ev' = "handleSendOtp"
  /\ UNCHANGED build

SendOtpResponse ==
  \E task \in BagToSet(tasks), response \in SendOtpResponses :
    /\ task.fn = "handleSendOtp"
    /\ Commit(handleSendOtpResponse([Now EXCEPT !.tasks = Finish(tasks, task)],
                                    task, response))
    /\ ev' = "handleSendOtp.response"
    /\ UNCHANGED build

\* handleVerifyOtp up to its await: the request carries phoneNumber and otp
handleVerifyOtpStart(c) ==
  IF BadOtp(c.page.otp) THEN [c EXCEPT !.toast = InvalidOtp]
  ELSE [c EXCEPT !.page.loading = TRUE,
                 !.tasks = Start(c.tasks, [fn |-> "handleVerifyOtp", live |-> TRUE,
                                           phoneNumber |-> c.page.phoneNumber])]

\* handleVerifyOtp resumed with the response of POST /api/auth/verify-otp
handleVerifyOtpResponse(c, task, response) ==
  LET done == SetState(c, task, [c.page EXCEPT !.loading = FALSE]) IN
  IF response = NetworkError THEN [done EXCEPT !.toast = ErrorMessage(FailedToFetch)]
  ELSE IF response.body = invalid THEN [done EXCEPT !.toast = ErrorMessage(JsonSyntaxError)]
  ELSE IF ok(response) /\ response.body.success
    THEN navigate(
           [done EXCEPT
              !.storage = setItem(setItem(done.storage, "authToken", response.body.token),
                                  "phoneNumber", response.body.phoneNumber),
              !.toast = LoginSuccessful], "Orders", "")
  ELSE [done EXCEPT !.toast = ErrorMessage("Invalid OTP")]

\* Verify OTP, disabled while loading
VerifyOtpClick ==
  /\ page.name = "Login" /\ build.login = "otp" /\ page.otpSent /\ ~page.loading
  /\ Commit(handleVerifyOtpStart(Now))
  /\ ev' = "handleVerifyOtp"
  /\ UNCHANGED build

VerifyOtpResponse ==
  \E task \in BagToSet(tasks), response \in VerifyOtpResponses :
    /\ task.fn = "handleVerifyOtp"
    /\ Commit(handleVerifyOtpResponse([Now EXCEPT !.tasks = Finish(tasks, task)],
                                      task, response))
    /\ ev' = "handleVerifyOtp.response"
    /\ UNCHANGED build

handleResendOtp(c) == [c EXCEPT !.page.otp = "", !.page.otpSent = FALSE]

\* Resend OTP, disabled while loading
ResendOtp ==
  /\ page.name = "Login" /\ build.login = "otp" /\ page.otpSent /\ ~page.loading
  /\ Commit(handleResendOtp(Now))
  /\ ev' = "handleResendOtp"
  /\ UNCHANGED build

(* ------------------------- resuming a handler -------------------------- *)

Awaiting == BagToSet(tasks)

\* what the API may answer to the request a task awaits
ResponsesOf(task) ==
  CASE task.fn = "fetchOrders" -> OrdersResponses
    [] task.fn = "fetchOrderDetail" /\ task.awaiting = "allOrders" -> OrdersResponses
    [] task.fn = "fetchOrderDetail" /\ task.awaiting = "order" -> OrderResponses
    [] task.fn = "handleCancelOrder" -> CancelResponses
    [] task.fn = "handleRequestCall" -> CallResponses
    [] task.fn = "handleLogin" -> LoginResponses
    [] task.fn = "handleSendOtp" -> SendOtpResponses
    [] task.fn = "handleVerifyOtp" -> VerifyOtpResponses

\* the program state once the task has been resumed with the response
Resume(task, response) ==
  LET c == [Now EXCEPT !.tasks = Finish(tasks, task)] IN
  CASE task.fn = "fetchOrders" -> fetchOrders(c, task, response)
    [] task.fn = "fetchOrderDetail" /\ task.awaiting = "allOrders" ->
         fetchOrderDetailAllOrders(c, task, response)
    [] task.fn = "fetchOrderDetail" /\ task.awaiting = "order" ->
         fetchOrderDetailOrder(c, task, response)
    [] task.fn = "handleCancelOrder" -> handleCancelOrderResponse(c, task, response)
    [] task.fn = "handleRequestCall" -> handleRequestCallResponse(c, task, response)
    [] task.fn = "handleLogin" -> handleLoginResponse(c, task, response)
    [] task.fn = "handleSendOtp" -> handleSendOtpResponse(c, task, response)
    [] task.fn = "handleVerifyOtp" -> handleVerifyOtpResponse(c, task, response)

(* ------------------------------ the system ----------------------------- *)

Init ==
  /\ build \in [orders : {"v1", "v2"}, login : {"direct", "otp"}]
  /\ localStorage \in [authToken : Tokens \cup {NoItem}, phoneNumber : Phones \cup {NoItem}]
  /\ page = NewPage("Index", "")
  /\ tasks = EmptyBag
  /\ toast = NoToast
  /\ ev = "load"

Next ==
  \/ FetchOrdersResponse
  \/ Logout
  \/ OrdersGoHome
  \/ OpenOrder
  \/ HistoryGo
  \/ FetchOrderDetailAllOrdersResponse
  \/ FetchOrderDetailOrderResponse
  \/ BackToOrders
  \/ OpenCancelDialog
  \/ KeepOrder
  \/ CancelOrderClick
  \/ CancelOrderResponse
  \/ TypePhone
  \/ IndexGoLogin
  \/ LoginGoHome
  \/ RequestCallClick
  \/ RequestCallResponse
  \/ LoginClick
  \/ LoginResponse
  \/ TypeOtp
  \/ SendOtpClick
  \/ SendOtpResponse
  \/ VerifyOtpClick
  \/ VerifyOtpResponse
  \/ ResendOtp

Spec == Init /\ [][Next]_vars

\* the application opened in a browser whose localStorage is empty
InitFresh ==
  /\ build \in [orders : {"v1", "v2"}, login : {"direct", "otp"}]
  /\ localStorage = [authToken |-> NoItem, phoneNumber |-> NoItem]
  /\ page = NewPage("Index", "")
  /\ tasks = EmptyBag
  /\ toast = NoToast
  /\ ev = "load"

SpecFresh == InitFresh /\ [][Next]_vars

(* ------------------------- the badge, on its own ----------------------- *)

\* <Badge className={getStatusColor(status)}>: one status string, rendered by
\* one of the three components
UpperOf(ch) == IF \E u \in DOMAIN LowerOf : LowerOf[u] = ch
                 THEN CHOOSE u \in DOMAIN LowerOf : LowerOf[u] = ch
                 ELSE ch

\* every way of capitalising the letters of w
CaseVariants(w) ==
  {[i \in 1..Len(w) |-> IF i \in S THEN UpperOf(w[i]) ELSE w[i]] : S \in SUBSET (1..Len(w))}

\* the statuses rendered: the five names in every capitalisation, and strings
\* that are none of them
StatusInputs ==
  UNION {CaseVariants(w) : w \in {delivered, shipped, confirmed, cancelled, pending}}
    \cup {<<>>, <<"p","a","i","d">>, <<"R","e","t","u","r","n","e","d">>,
          <<"c","o","n","f","i","r","m">>, <<"s","h","i","p","p","e","d"," ">>}

BadgeInit ==
  /\ build \in [orders : {"v1", "v2"}, login : {"direct"}]
  /\ localStorage = [authToken |-> NoItem, phoneNumber |-> NoItem]
  /\ page \in [name : {"Badge"}, component : {"none"}, status : StatusInputs, className : {""}]
  /\ tasks = EmptyBag
  /\ toast = NoToast
  /\ ev = "load"

RenderBadge(component, className) ==
  /\ page' = [page EXCEPT !.component = component, !.className = className]
  /\ ev' = "render"
  /\ UNCHANGED <<build, localStorage, tasks, toast>>

\* the badge of an order card of the list, first version
RenderOrdersV1Badge ==
  build.orders = "v1" /\ RenderBadge("Orders", getStatusColorV1(page.status))

\* the badge of an order card of the list, second version
RenderOrdersV2Badge ==
  build.orders = "v2" /\ RenderBadge("Orders", getStatusColorV2(page.status))

\* the badge of the detail page
RenderOrderDetailBadge == RenderBadge("OrderDetail", getStatusColorDetail(page.status))

BadgeNext == RenderOrdersV1Badge \/ RenderOrdersV2Badge \/ RenderOrderDetailBadge

SpecBadge == BadgeInit /\ [][BadgeNext]_vars

(* ------------------------------- claims -------------------------------- *)

Unauthorized(response) == response # NetworkError /\ response.status = 401
SessionCleared(st) == st.authToken = NoItem /\ st.phoneNumber = NoItem

\* the handler returns when the task is resumed with this response
Returns(task, response) ==
  ~(task.fn = "fetchOrderDetail" /\ task.awaiting = "allOrders" /\ response # NetworkError)

\* C1: whenever a handler of an authenticated call (the list load, either request
\* of the detail load, the cancel request) returns after a 401 response, both
\* authToken and phoneNumber are gone from localStorage and the page is /login
C1_Unauthorized ==
  \A task \in Awaiting : \A response \in ResponsesOf(task) :
    /\ task.fn \in {"fetchOrders", "fetchOrderDetail", "handleCancelOrder"}
    /\ Returns(task, response)
    /\ \/ Unauthorized(response)
       \/ task.fn = "fetchOrderDetail" /\ task.awaiting = "order"
            /\ Unauthorized(task.allOrdersResponse)
    => LET c == Resume(task, response)
       IN SessionCleared(c.storage) /\ c.page.name = "Login"

\* a protected page shows order data: a loaded, non-empty list or a loaded order
ShowsContent(pg) ==
  \/ OrderRendered(pg)
  \/ pg.name = "Orders" /\ ~pg.loading /\ ~Crashed(pg) /\ Len(pg.orders.array) > 0

\* C2: in every reachable state, a protected page that shows order data has a
\* non-empty authToken in localStorage
C2_TokenWhenContent == ShowsContent(page) => ~Falsy(localStorage.authToken)

C2_Witness ==
  /\ OrderRendered(page) /\ ev = "fetchOrderDetail.order"
  /\ ~Falsy(localStorage.authToken)

\* C3: on the detail page the Cancel Order button is offered if and only if an
\* order is held and its status, lowercased, is "confirmed"
C3_CancelOffered ==
  page.name = "OrderDetail" =>
    (CancelOffered(page) <=>
       /\ page.order \notin {null, undefined}
       /\ toLowerCase(page.order.order_status) = confirmed)

C3_Witness ==
  CancelOffered(page) /\ page.order.order_status = Confirmed /\ ev = "fetchOrderDetail.order"

\* C4: once the cancel request is answered 2xx, the order the page holds is the
\* order it held with order_status "cancelled" and nothing else changed, and no
\* request is started
C4_CancelSuccess ==
  \A task \in Awaiting : \A response \in CancelResponses :
    /\ task.fn = "handleCancelOrder" /\ task.live
    /\ response # NetworkError /\ ok(response)
    /\ page.order \notin {null, undefined}
    => LET c == Resume(task, response)
       IN /\ c.page.order = [page.order EXCEPT !.order_status = cancelled]
          /\ c.tasks = Finish(tasks, task)

\* C5: when the cancel request fails (fetch throws, or a non-2xx answer) the
\* error notice is raised and the page, the order it holds included, and
\* localStorage are what they were
C5_CancelFailure ==
  \A task \in Awaiting : \A response \in CancelResponses :
    /\ task.fn = "handleCancelOrder"
    /\ response = NetworkError \/ ~ok(response)
    => LET c == Resume(task, response)
       IN /\ c.toast = ErrorCancel
          /\ c.page = page
          /\ c.storage = localStorage
          /\ c.tasks = Finish(tasks, task)

C5_Witness ==
  /\ ev = "handleCancelOrder.response" /\ toast = ErrorCancel
  /\ OrderRendered(page) /\ page.order.order_status = Confirmed

\* the color the documentation gives a status: the four names as written, and
\* yellow for pending and everything else
DocumentedColor(status) ==
  CASE status = delivered -> "bg-green-500"
    [] status = shipped -> "bg-blue-500"
    [] status = confirmed -> "bg-purple-500"
    [] status = cancelled -> "bg-red-500"
    [] OTHER -> "bg-yellow-500"

\* C6, as stated: on every page the badge of a status is green for delivered,
\* blue for shipped, purple for confirmed, red for cancelled, and yellow for
\* pending and for every other string
C6_DocumentedColorAsIs ==
  page.name = "Badge" /\ page.component # "none" =>
    page.className = DocumentedColor(page.status)

\* C6, amended: the first version of the list gives a status that color; the
\* second version of the list and the detail page give it the color of the
\* lowercased status
C6_StatusColor ==
  page.name = "Badge" /\ page.component # "none" =>
    page.className =
      IF page.component = "Orders" /\ build.orders = "v1"
        THEN DocumentedColor(page.status)
        ELSE DocumentedColor(toLowerCase(page.status))

\* a capitalised Delivered is green where the status is lowercased first
C6_Witness ==
  /\ page.name = "Badge" /\ page.component = "Orders" /\ build.orders = "v2"
  /\ page.status = <<"D","e","l","i","v","e","r","e","d">>
  /\ page.className = "bg-green-500"

\* the orders request failed: fetch threw, the body was no JSON, or the status
\* was neither 2xx nor 401
LoadFailed(response) ==
  \/ response = NetworkError
  \/ ok(response) /\ response.body = invalid
  \/ ~ok(response) /\ response.status # 401

\* C7: when the orders request of a mounted list page fails, the handler ends
\* with the error notice raised, an empty orders array and loading = false, and
\* the page still renders
C7_LoadFailure ==
  \A task \in Awaiting : \A response \in OrdersResponses :
    /\ task.fn = "fetchOrders" /\ task.live
    /\ LoadFailed(response)
    => LET c == Resume(task, response)
       IN /\ c.toast = ErrorLoadOrders
          /\ c.page.name = "Orders" /\ ~Crashed(c.page)
          /\ c.page.orders = Arr(<<>>)
          /\ ~c.page.loading

C7_Witness ==
  /\ ev = "fetchOrders" /\ toast = ErrorLoadOrders
  /\ page.name = "Orders" /\ page.orders = Arr(<<>>) /\ ~page.loading

\* C8: when the orders request of a mounted list page is answered 2xx with an
\* empty orders array or with no orders field, the page ends not loading, with
\* the empty-state prompt (an empty array) and no notice
C8_EmptyResponse ==
  \A task \in Awaiting : \A response \in OrdersResponses :
    /\ task.fn = "fetchOrders" /\ task.live
    /\ response # NetworkError /\ ok(response) /\ response.body # invalid
    /\ response.body.orders \in {undefined, Arr(<<>>)}
    => LET c == Resume(task, response)
       IN /\ ~c.page.loading
          /\ c.page.orders = Arr(<<>>)
          /\ c.toast = NoToast

\* C9: when a protected page (the list, the detail page) has mounted while the
\* token or the phone number is missing from localStorage, the page is /login
\* and no request of the page is in flight
C9_RequireSession ==
  /\ ev = "useEffect"
  /\ Falsy(localStorage.authToken) \/ Falsy(localStorage.phoneNumber)
  => page.name = "Login" /\ \A task \in Awaiting : ~task.live

\* C10: Logout on the list page, whatever its state, removes authToken and
\* phoneNumber from localStorage and navigates to "/"
C10_Logout == ev = "handleLogout" => SessionCleared(localStorage) /\ page.name = "Index"

\* logged out with the orders request still in flight
C10_Witness ==
  /\ ev = "handleLogout" /\ page.name = "Index" /\ SessionCleared(localStorage)
  /\ \E task \in Awaiting : task.fn = "fetchOrders"

\* the detail page renders "Order not found": not loading and no order held
OrderNotFound(pg) ==
  pg.name = "OrderDetail" /\ ~pg.loading /\ pg.order \in {null, undefined}

\* the API says the requested order does not exist: 404, or a 2xx body with no order
OrderMissing(response) ==
  /\ response # NetworkError
  /\ \/ response.status = 404
     \/ ok(response) /\ response.body # invalid /\ response.body.order = undefined

\* C13: when the order GET of a mounted detail page is answered not-found (404,
\* or a 2xx body with no order) and the list GET was fine, the page ends in the
\* "Order not found" state, with no error notice and no redirect
C13_OrderNotFound ==
  \A task \in Awaiting : \A response \in OrderResponses :
    /\ task.fn = "fetchOrderDetail" /\ task.awaiting = "order" /\ task.live
    /\ ok(task.allOrdersResponse) /\ task.allOrdersResponse.body # invalid
    /\ OrderMissing(response)
    => LET c == Resume(task, response)
       IN OrderNotFound(c.page) /\ c.toast = NoToast

\* the requests in flight that the mounted page instance started
InFlightOfPage == CountOf(tasks, {task \in Awaiting : task.live})

\* C14: in every reachable state the mounted page instance has at most one
\* request in flight
C14_OneRequestPerPage == InFlightOfPage <= 1

\* the API answered the login attempt with success: 2xx, a JSON body, success true
LoginSucceeded(response) ==
  /\ response # NetworkError /\ ok(response)
  /\ response.body # invalid /\ response.body.success

\* C11: when the login request of a mounted login page (handleLogin or
\* handleVerifyOtp) is answered with success, localStorage holds the token of
\* the response and a phone number and the page is /orders; when it fails
\* (fetch throws, non-2xx, no JSON, or success false) an error notice is raised
\* and localStorage is what it was
C11_Login ==
  \A task \in Awaiting : \A response \in ResponsesOf(task) :
    task.fn \in {"handleLogin", "handleVerifyOtp"} /\ task.live
    => LET c == Resume(task, response)
       IN IF LoginSucceeded(response)
            THEN /\ c.storage.authToken = String(response.body.token)
                 /\ ~Falsy(c.storage.phoneNumber)
                 /\ c.page.name = "Orders"
            ELSE /\ c.toast.title = "Error"
                 /\ c.storage = localStorage

\* a handler rejected its input: a notice, and nothing else changed (no request
\* started, loading and localStorage as they were)
Rejected(c, notice) ==
  /\ c.toast = notice
  /\ c.tasks = tasks
  /\ c.page = page
  /\ c.storage = localStorage

\* C12: with a phone number of fewer than 10 characters (none included) in the
\* field, Request Call Now, Login and Send OTP raise the invalid-phone notice,
\* and with an OTP of other than 6 characters Verify OTP raises the invalid-OTP
\* notice; no request is started and page and localStorage stay as they were
C12_Validation ==
  /\ page.name = "Index" /\ Len(page.phoneNumber) < 10
       => Rejected(handleRequestCallStart(Now), InvalidPhone)
  /\ page.name = "Login" /\ build.login = "direct" /\ Len(page.phoneNumber) < 10
       => Rejected(handleLoginStart(Now), InvalidPhone)
  /\ page.name = "Login" /\ build.login = "otp" /\ Len(page.phoneNumber) < 10
       => Rejected(handleSendOtpStart(Now), InvalidPhone)
  /\ page.name = "Login" /\ build.login = "otp" /\ Len(page.otp) # 6
       => Rejected(handleVerifyOtpStart(Now), InvalidOtp)

\* Send OTP clicked with five digits in the field
C12_Witness ==
  /\ ev = "handleSendOtp" /\ toast = InvalidPhone
  /\ page.phoneNumber = "98765" /\ ~page.loading /\ tasks = EmptyBag

\* the steps in which a response reaches its handler
ResponseEvents ==
  {"fetchOrders", "fetchOrderDetail.allOrders", "fetchOrderDetail.order",
   "handleCancelOrder.response", "handleRequestCall.response", "handleLogin.response",
   "handleSendOtp.response", "handleVerifyOtp.response"}

\* what the handler of a request does when the response arrives after its page
\* was left
StaleEffects(task, response) ==
  LET c == Resume(task, response) IN
  \* 401, where the handler has a branch for it: the session is cleared and
  \* navigate("/login") is called
  /\ /\ Unauthorized(response)
     /\ \/ task.fn = "fetchOrders" /\ build.orders = "v2"
        \/ task.fn = "fetchOrderDetail" /\ task.awaiting = "order"
     => /\ SessionCleared(c.storage)
        /\ c.toast = SessionExpired
        /\ Crashed(page) \/ c.page.name = "Login"
  \* failure of the detail load: the notice, and navigate("/orders") is called
  /\ task.fn = "fetchOrderDetail" /\ response = NetworkError
     => /\ c.toast = ErrorLoadDetails
        /\ Crashed(page) \/ c.page.name \in {"Orders", "Login"}
  \* failure of the list load: the notice
  /\ task.fn = "fetchOrders" /\ response = NetworkError => c.toast = ErrorLoadOrders
  \* success of the list load: the state update reaches no mounted page
  /\ /\ task.fn = "fetchOrders" /\ response # NetworkError
     /\ ok(response) /\ response.body # invalid
     => c.page = page /\ c.storage = localStorage

\* C15: no request is ever cancelled (leaving a page removes none of the
\* requests in flight, only a response ends one), and the handler of a request
\* whose page was left still runs when the response arrives: its state update
\* reaches no mounted page, its notice, storage clear and navigate call take
\* effect
C15_NeverCancelled ==
  /\ [](\A task \in Awaiting : \A response \in ResponsesOf(task) :
          ~task.live => StaleEffects(task, response))
  /\ [][BagCardinality(tasks') >=
          BagCardinality(tasks) - (IF ev' \in ResponseEvents THEN 1 ELSE 0)]_vars

\* a 401 for the list request arrived on the login page, after the list page
\* was left and a phone number typed
C15_Witness ==
  /\ ev = "fetchOrders" /\ toast = SessionExpired
  /\ page.name = "Login" /\ page.phoneNumber = "9876543210"
  /\ SessionCleared(localStorage)

\* C16: starting from an empty localStorage, in every reachable state authToken
\* and phoneNumber are both present or both absent
C16_BothOrNeither ==
  (localStorage.authToken = NoItem) <=> (localStorage.phoneNumber = NoItem)

\* a session was stored, then removed by a 401 while a login was in flight
C16_Witness ==
  /\ ev \in {"fetchOrders", "fetchOrderDetail.order"} /\ toast = SessionExpired
  /\ SessionCleared(localStorage)
  /\ \E task \in Awaiting : task.fn \in {"handleLogin", "handleVerifyOtp"}

\* a verify-otp request is in flight only on a page whose send-otp succeeded
VerifyAfterSend ==
  \A task \in Awaiting : task.fn = "handleVerifyOtp" /\ task.live => page.otpSent

\* when send-otp succeeds the page enters the OTP step with the phone number the
\* request was made for: the step has no phone field, so this is the number
\* verify-otp will carry
SamePhone ==
  \A task \in Awaiting : \A response \in SendOtpResponses :
    /\ task.fn = "handleSendOtp" /\ task.live
    /\ response # NetworkError /\ ok(response)
    /\ response.body # invalid /\ response.body.success
    => LET c == Resume(task, response)
       IN c.page.otpSent /\ c.page.phoneNumber = task.phoneNumber

\* Resend OTP empties the OTP field and shows the phone-entry step
ResendResets == ev = "handleResendOtp" => page.otp = "" /\ ~page.otpSent

\* C17: in the OTP login a verify-otp request is in flight only after a send-otp
\* succeeded, the OTP step is entered with the phone number of the send-otp that
\* succeeded, and Resend OTP clears the OTP and returns to the phone-entry step
C17_OtpFlow == VerifyAfterSend /\ SamePhone /\ ResendResets

====
